---- MODULE Spec2Model ----
(***************************************************************************)
(* Model of the pbl_utils ranging session (ranging.py), the fusion entry   *)
(* point (spausyncing.py) and the trilateration geometry (mapping.py).     *)
(*                                                                         *)
(* Text is modelled character by character: a line is a sequence of        *)
(* one-character strings, so split(), strip(), slicing and float() are     *)
(* computed the way the Python code computes them.                         *)
(***************************************************************************)
EXTENDS Integers, Sequences, FiniteSets, TLC

VARIABLES
    measures_queue,        \* UwbConnection.measures_queue: FIFO of [n, line]
    rpc,                   \* position of _uwb_anwser_reader_process
    rdata,                 \* the reader's local `data` (line read, not yet put)
    nread,                 \* number of lines the reader has read from the transport
    last_address_nearest,  \* UwbConnection.last_address_nearest
    last_address_second,   \* UwbConnection.last_address_second
    last_reader_message,   \* UwbConnection.last_reader_message
    cpc,                   \* position of the caller inside get_last_UwbDataPair
    cop,                   \* the caller operation in progress
    ret,                   \* outcome of the caller's last completed operation
    asked,                 \* arguments of the previous ask_for_distances call, if any
    nasks,                 \* ask_for_distances calls since construction / restart
    writes,                \* char_write calls since construction / restart
    ncalls,                \* caller operations started so far
    env,                   \* the run's environment: what the device emits, how long the run is
    geo,                   \* the state of one run of the geometry engine
    conn,                  \* the session object and its BLE link
    frame,                 \* one SpauData frame and the inputs it is built from
    parse                  \* one text handed to the parsers, and what they made of it

vars == <<measures_queue, rpc, rdata, nread, last_address_nearest,
          last_address_second, last_reader_message, cpc, cop, ret, asked,
          nasks, writes, ncalls, env, geo, conn, frame, parse>>

-----------------------------------------------------------------------------
(* Bounds of the model *)

\* lines the transport delivers in a run of the reader against one consumer
MaxReads == 7
\* get_last_UwbDataPair calls in a run of the reader against one consumer
MaxGets == 6
\* lines the transport delivers in a run of the whole session
MaxSessionReads == 1
\* caller operations in a run of the whole session
MaxCalls == 3

-----------------------------------------------------------------------------
(* Text helpers *)

Min(a, b) == IF a < b THEN a ELSE b

Digits == {"0", "1", "2", "3", "4", "5", "6", "7", "8", "9"}

DigitVal(c) ==
    CASE c = "0" -> 0 [] c = "1" -> 1 [] c = "2" -> 2 [] c = "3" -> 3
      [] c = "4" -> 4 [] c = "5" -> 5 [] c = "6" -> 6 [] c = "7" -> 7
      [] c = "8" -> 8 [] c = "9" -> 9

Whitespace == {" ", "\n", "\r", "\t"}

\* str.strip(): drop leading and trailing whitespace
RECURSIVE LStrip(_)
LStrip(s) ==
    IF s # <<>> /\ Head(s) \in Whitespace THEN LStrip(Tail(s)) ELSE s

RECURSIVE RStrip(_)
RStrip(s) ==
    IF s # <<>> /\ s[Len(s)] \in Whitespace
    THEN RStrip(SubSeq(s, 1, Len(s) - 1))
    ELSE s

Strip(s) == RStrip(LStrip(s))

\* str.split(sep): always at least one piece, empty pieces are kept
RECURSIVE Split(_, _)
Split(s, sep) ==
    IF \A i \in 1..Len(s) : s[i] # sep
    THEN <<s>>
    ELSE LET i == CHOOSE k \in 1..Len(s) :
                      s[k] = sep /\ \A j \in 1..(k - 1) : s[j] # sep
         IN  <<SubSeq(s, 1, i - 1)>> \o Split(SubSeq(s, i + 1, Len(s)), sep)

\* s[:5]
Prefix5(s) == SubSeq(s, 1, Min(5, Len(s)))

RECURSIVE DigitsToInt(_)
DigitsToInt(s) ==
    IF s = <<>> THEN 0
    ELSE 10 * DigitsToInt(SubSeq(s, 1, Len(s) - 1)) + DigitVal(s[Len(s)])

\* float(s) accepts digits with at most one decimal point (the shapes the
\* device emits); anything else is a ValueError.
IsFloat(s) ==
    /\ \A i \in 1..Len(s) : s[i] \in Digits \cup {"."}
    /\ Cardinality({i \in 1..Len(s) : s[i] = "."}) <= 1
    /\ \E i \in 1..Len(s) : s[i] \in Digits

\* the value of float(s) in hundredths (two decimals are kept)
FloatVal(s) ==
    LET parts == Split(s, ".")
        whole == DigitsToInt(parts[1])
        frac  == IF Len(parts) = 1 THEN <<>> ELSE parts[2]
        f2    == SubSeq(frac \o <<"0", "0">>, 1, 2)
    IN  100 * whole + DigitsToInt(f2)

-----------------------------------------------------------------------------
(* ranging.py: UwbData, UwbDataPair and their parsers *)

UWB_TIMEOUT_MESSAGE == <<"T", "i", "m", "e", "d", " ", "o", "u", "t", "!">>

\* UwbData.__init__
UwbData(tag, distance, power, valid) ==
    [tag_address |-> tag, distance |-> distance, power |-> power, valid |-> valid]

\* UwbData() with every default
UwbDataDefault == UwbData(<<"n", "o", "n", "e">>, 0, 0, TRUE)

\* UwbData(valid = False)
UwbDataTimeout == UwbData(<<"n", "o", "n", "e">>, 0, 0, FALSE)

\* UwbDataPair.__init__
UwbDataPair(nearest, second) == [nearest |-> nearest, second |-> second]

\* the outcome of a call: a value, or the exception that left it
Returned(v) == [exc |-> "none", val |-> <<v>>]
Raised(e)   == [exc |-> e, val |-> <<>>]

\* UwbData.create_UWB_data
create_UWB_data_without_timeout(data) ==
    LET data_array == Split(data, "|") IN
    IF Len(data_array) < 2 THEN Raised("UwbDataError")
    ELSE IF ~IsFloat(data_array[2]) THEN Raised("ValueError")
    ELSE IF Len(data_array) < 3 THEN Raised("IndexError")
    ELSE IF ~IsFloat(data_array[3]) THEN Raised("ValueError")
    ELSE Returned(UwbData(Prefix5(data_array[1]),
                          FloatVal(data_array[2]),
                          FloatVal(data_array[3]), TRUE))

create_UWB_data(data) ==
    LET data_array == Split(data, "|") IN
    IF Len(data_array) < 2 THEN Raised("UwbDataError")
    ELSE IF data_array[2] = UWB_TIMEOUT_MESSAGE THEN Returned(UwbDataTimeout)
    ELSE IF ~IsFloat(data_array[2]) THEN Raised("ValueError")
    ELSE IF Len(data_array) < 3 THEN Raised("IndexError")
    ELSE IF ~IsFloat(data_array[3]) THEN Raised("ValueError")
    ELSE Returned(UwbData(Prefix5(data_array[1]),
                          FloatVal(data_array[2]),
                          FloatVal(data_array[3]), TRUE))

\* UwbDataPair.create_UWB_data_pair
create_UWB_data_pair_swapped(data) ==
    LET datas == Split(data, "_") IN
    IF Len(datas) < 2 THEN Raised("UwbDataError")
    ELSE LET first_uwb == create_UWB_data(datas[1]) IN
         IF first_uwb.exc # "none" THEN first_uwb
         ELSE LET second_uwb == create_UWB_data(datas[2]) IN
              IF second_uwb.exc # "none" THEN second_uwb
              ELSE Returned(UwbDataPair(second_uwb.val[1], first_uwb.val[1]))

create_UWB_data_pair(data) ==
    LET datas == Split(data, "_") IN
    IF Len(datas) < 2 THEN Raised("UwbDataError")
    ELSE LET first_uwb == create_UWB_data(datas[1]) IN
         IF first_uwb.exc # "none" THEN first_uwb
         ELSE LET second_uwb == create_UWB_data(datas[2]) IN
              IF second_uwb.exc # "none" THEN second_uwb
              ELSE Returned(UwbDataPair(first_uwb.val[1], second_uwb.val[1]))

-----------------------------------------------------------------------------
(* The byte lines the UWB device can put on the serial transport.          *)
(* Each ends with the newline readline() returns.                          *)

\* "AA:05r|12.5|5_BB:02r|9|4": a well-formed pair
LineGood1 ==
    <<"A", "A", ":", "0", "5", "r", "|", "1", "2", ".", "5", "|", "5", "_",
      "B", "B", ":", "0", "2", "r", "|", "9", "|", "4", "\n">>

\* "BB:02r|7|3_AA:05r|8.25|2": another well-formed pair
LineGood2 ==
    <<"B", "B", ":", "0", "2", "r", "|", "7", "|", "3", "_", "A", "A", ":",
      "0", "5", "r", "|", "8", ".", "2", "5", "|", "2", "\n">>

\* UWB_ERROR_MESSAGE, "Hello Wojtek": one block, one field
LineHello ==
    <<"H", "e", "l", "l", "o", " ", "W", "o", "j", "t", "e", "k", "\n">>

\* "AA:05r|12.5_BB:02r|9|4": the first block has exactly two fields
LineTwoFields ==
    <<"A", "A", ":", "0", "5", "r", "|", "1", "2", ".", "5", "_", "B", "B",
      ":", "0", "2", "r", "|", "9", "|", "4", "\n">>

\* "AA:05r|ab|5_BB:02r|9|4": a distance that is not a number
LineNonNumeric ==
    <<"A", "A", ":", "0", "5", "r", "|", "a", "b", "|", "5", "_", "B", "B",
      ":", "0", "2", "r", "|", "9", "|", "4", "\n">>

\* "AA:05r|Timed out!|5_BB:02r|9|4": the first anchor timed out
LineTimeout ==
    <<"A", "A", ":", "0", "5", "r", "|", "T", "i", "m", "e", "d", " ", "o",
      "u", "t", "!", "|", "5", "_", "B", "B", ":", "0", "2", "r", "|", "9",
      "|", "4", "\n">>

\* a byte outside ASCII: str(..., encoding="ASCII") cannot decode it
NonAscii == "\\xff"

LineNoise == <<NonAscii, "\n">>

TransportLines ==
    {LineGood1, LineGood2, LineHello, LineTwoFields, LineNonNumeric,
     LineTimeout, LineNoise}

\* the lines of a run that exercises the queue rather than the parser
QueueLines == {LineGood1, LineHello, LineNoise}

\* a run's environment
Env(lines, reads, calls) == [lines |-> lines, reads |-> reads, calls |-> calls]

\* str(bytes, encoding="ASCII") succeeds iff every byte is ASCII
IsAscii(raw) == \A i \in 1..Len(raw) : raw[i] # NonAscii

-----------------------------------------------------------------------------
(* ranging.py: the session (UwbConnection) and its background reader *)

\* Queue(maxsize=10)
QueueMaxsize == 10

\* the threshold of `if queue.qsize() > 5` in _uwb_anwser_reader_process
EvictThreshold == 5

\* set_initial_values: "00:00"
InitialAddress == <<"0", "0", ":", "0", "0">>

AddrAA05 == <<"A", "A", ":", "0", "5">>

AddrBB02 == <<"B", "B", ":", "0", "2">>

\* address pairs a caller passes to ask_for_distances
AskPairs ==
    {<<AddrAA05, AddrBB02>>, <<AddrBB02, AddrAA05>>,
     <<AddrAA05, InitialAddress>>, <<InitialAddress, InitialAddress>>}

\* set_initial_values: UwbDataPair(UwbData(), UwbData())
InitialPair == UwbDataPair(UwbDataDefault, UwbDataDefault)

\* what BLE_GATT's char_write can do: succeed, raise KeyError (UUID not
\* found), or raise anything else
WriteOutcomes == {"ok", "KeyError", "BLEError"}

\* the record kept of the caller's last completed operation
Outcome(op, kind, val, exc, wrote, qempty, head, cached) ==
    [op |-> op, kind |-> kind, val |-> val, exc |-> exc, wrote |-> wrote,
     qempty |-> qempty, head |-> head, cached |-> cached]

\* the caller operation in progress: its name and, for get_all_data, the
\* anchors select_points chose
Op(name, points) == [op |-> name, points |-> points]

NoOp == Op("none", <<>>)

NoOutcome == Outcome("none", "none", <<>>, "none", FALSE, FALSE, <<>>, InitialPair)

\* the session object and its BLE link: `session` is "ready" once __init__
\* has returned; `connected` is the state of the link; `tried` tells whether
\* the latest connect() or restart() call reached ble_device.connect()
Conn(session, connected, tried) ==
    [session |-> session, connected |-> connected, tried |-> tried]

\* a session after Spausync.launch(): constructed and connected
Launched == Conn("ready", TRUE, FALSE)

\* UwbConnection.__init__: set_initial_values
InitCaller ==
    /\ last_address_nearest = InitialAddress
    /\ last_address_second = InitialAddress
    /\ last_reader_message = InitialPair
    /\ cpc = "idle"
    /\ cop = NoOp
    /\ ret = NoOutcome
    /\ asked = <<>>
    /\ nasks = 0
    /\ writes = 0
    /\ ncalls = 0

\* UwbConnection.__init__: the session just constructed, reader not started
InitSession ==
    /\ measures_queue = <<>>
    /\ rpc = "created"
    /\ rdata = <<>>
    /\ nread = 0
    /\ InitCaller

callerVars == <<last_address_nearest, last_address_second, last_reader_message,
                cpc, cop, ret, asked, nasks, writes, ncalls>>

\* UwbConnection.begin_process: start the reader process
BeginProcess ==
    /\ rpc = "created"
    /\ rpc' = "check"
    /\ UNCHANGED <<measures_queue, rdata, nread, callerVars, env, geo, conn, frame, parse>>

\* the guard of the reader's eviction
ShouldEvict(size) == size > EvictThreshold

\* _uwb_anwser_reader_process: `if queue.qsize() > 5:`
ReaderCheck ==
    /\ rpc = "check"
    /\ rpc' = IF ShouldEvict(Len(measures_queue)) THEN "evict" ELSE "readline"
    /\ UNCHANGED <<measures_queue, rdata, nread, callerVars, env, geo, conn, frame, parse>>

\* _uwb_anwser_reader_process: `queue.get()`, which waits while the queue is empty
ReaderEvict ==
    /\ rpc = "evict"
    /\ measures_queue # <<>>
    /\ measures_queue' = Tail(measures_queue)
    /\ rpc' = "readline"
    /\ UNCHANGED <<rdata, nread, callerVars, env, geo, conn, frame, parse>>

\* _uwb_anwser_reader_process: `data = str(serial_device.readline(), encoding="ASCII").strip()`
\* A byte that is not ASCII raises UnicodeDecodeError, which ends the process.
ReaderReadline ==
    /\ rpc = "readline"
    /\ nread < env.reads
    /\ \E raw \in env.lines :
          IF IsAscii(raw)
          THEN /\ rdata' = <<[n |-> nread + 1, line |-> Strip(raw)]>>
               /\ nread' = nread + 1
               /\ rpc' = "put"
          ELSE /\ rpc' = "dead"
               /\ UNCHANGED <<rdata, nread>>
    /\ UNCHANGED <<measures_queue, callerVars, env, geo, conn, frame, parse>>

\* _uwb_anwser_reader_process: `queue.put(data)`, which waits while the queue is full
ReaderPut ==
    /\ rpc = "put"
    /\ Len(measures_queue) < QueueMaxsize
    /\ measures_queue' = Append(measures_queue, rdata[1])
    /\ rdata' = <<>>
    /\ rpc' = "check"
    /\ UNCHANGED <<nread, callerVars, env, geo, conn, frame, parse>>

\* ask_for_distances: `if address_1 == self.last_address_nearest and
\* address_2 == self.last_address_second: return`
IsRepeatedRequest(address_1, address_2) ==
    address_1 = last_address_nearest /\ address_2 = last_address_second

\* the effect of ask_for_distances on the session, as a record:
\* wrote: char_write was called; exc: the exception that leaves the call
AskEffectKeyErrorEscalates(address_1, address_2, wr) ==
    IF IsRepeatedRequest(address_1, address_2)
    THEN [wrote |-> FALSE, exc |-> "none"]
    ELSE [wrote |-> TRUE, exc |-> IF wr = "ok" THEN "none" ELSE "ConnectionError"]

AskEffect(address_1, address_2, wr) ==
    IF IsRepeatedRequest(address_1, address_2)
    THEN [wrote |-> FALSE, exc |-> "none"]
    ELSE [wrote |-> TRUE,
          exc |-> IF wr \in {"ok", "KeyError"} THEN "none" ELSE "ConnectionError"]

\* the assignments of ask_for_distances to the session's fields: the pair is
\* recorded before char_write is called, whatever the write then does
AskUpdateRecordsAfterWrite(address_1, address_2, eff) ==
    /\ last_address_nearest' =
          IF eff.wrote /\ eff.exc = "none" THEN address_1 ELSE last_address_nearest
    /\ last_address_second' =
          IF eff.wrote /\ eff.exc = "none" THEN address_2 ELSE last_address_second
    /\ asked' = <<<<address_1, address_2>>>>
    /\ nasks' = nasks + 1
    /\ writes' = IF eff.wrote THEN writes + 1 ELSE writes

AskUpdate(address_1, address_2, eff) ==
    /\ last_address_nearest' =
          IF eff.wrote THEN address_1 ELSE last_address_nearest
    /\ last_address_second' =
          IF eff.wrote THEN address_2 ELSE last_address_second
    /\ asked' = <<<<address_1, address_2>>>>
    /\ nasks' = nasks + 1
    /\ writes' = IF eff.wrote THEN writes + 1 ELSE writes

\* the outcome of the write of the call before, when that call was
\* ask_for_distances with the same pair ("none": no such call, or no write)
WriteBefore(pair) ==
    IF ret.op = "ask" /\ asked = <<pair>> THEN ret.wr ELSE "none"

\* UwbConnection.ask_for_distances, called on its own
AskForDistances ==
    /\ cpc = "idle"
    /\ conn.session = "ready"
    /\ ncalls < env.calls
    /\ \E pair \in AskPairs, wr \in WriteOutcomes :
          LET eff == AskEffect(pair[1], pair[2], wr) IN
          /\ AskUpdate(pair[1], pair[2], eff)
          /\ ret' = Outcome("ask", IF eff.exc = "none" THEN "return" ELSE "raise",
                            <<>>, eff.exc, eff.wrote, FALSE, <<>>,
                            last_reader_message)
                     @@ [wr |-> IF eff.wrote THEN wr ELSE "none",
                         before |-> WriteBefore(pair)]
    /\ ncalls' = ncalls + 1
    /\ UNCHANGED <<measures_queue, rpc, rdata, nread, last_reader_message,
                   cpc, cop, env, geo, conn, frame, parse>>

\* get_last_UwbDataPair up to `if self.measures_queue.qsize() > 0:`;
\* with an empty queue the call returns the cached pair at once
GetLastCheck(op) ==
    IF Len(measures_queue) > 0
    THEN /\ cpc' = "get"
         /\ cop' = op
         /\ UNCHANGED last_reader_message
    ELSE /\ cpc' = "idle"
         /\ cop' = NoOp
         /\ UNCHANGED last_reader_message

\* UwbConnection.get_last_UwbDataPair, called on its own
GetLastUwbDataPair ==
    /\ cpc = "idle"
    /\ conn.session = "ready"
    /\ ncalls < env.calls
    /\ GetLastCheck(Op("get_last", <<>>))
    /\ ret' = IF Len(measures_queue) > 0 THEN ret
              ELSE Outcome("get_last", "pair", <<last_reader_message>>, "none",
                           FALSE, TRUE, <<>>, last_reader_message)
    /\ ncalls' = ncalls + 1
    /\ UNCHANGED <<measures_queue, rpc, rdata, nread, last_address_nearest,
                   last_address_second, asked, nasks, writes, env, geo, conn, frame, parse>>

\* what get_last_UwbDataPair does with the line it took from the queue:
\* a pair is cached and returned; UwbDataError is caught and the method falls
\* off its end (returns None); any other exception leaves the method
GetLastResult(parsed, cached) ==
    IF parsed.exc = "none"
    THEN [kind |-> "pair", val |-> parsed.val, exc |-> "none", cache |-> parsed.val[1]]
    ELSE IF parsed.exc = "UwbDataError"
    THEN [kind |-> "None", val |-> <<>>, exc |-> "none", cache |-> cached]
    ELSE [kind |-> "raise", val |-> <<>>, exc |-> parsed.exc, cache |-> cached]

\* SpauData.__init__: the frame built around a ranging pair
SpauData(uwb) == [uwb_data_pair |-> uwb]

\* the arguments SpauData.calculate passes calculate_position
CalculateArguments == <<"self.gps_data", "self.uwb_data_pair", "points_pair">>

\* the parameters of calculate_position, none of which has a default
CalculateParameters ==
    <<"anchor_A", "anchor_B", "ctrl_anchor", "distance_a", "distance_b">>

\* binding three positional arguments to five parameters is a TypeError,
\* raised before the body of calculate_position (and its try) is entered
CalculateRaises ==
    IF Len(CalculateArguments) # Len(CalculateParameters)
    THEN "TypeError" ELSE "none"

\* get_all_data after get_last_UwbDataPair: `if uwb_data == None: return None`,
\* otherwise the frame is built and `data.calculate(points_to_talk)` is
\* called, whose exception (see CalculateCall) leaves get_all_data
GetAllResult(got) ==
    IF got.kind = "pair"
    THEN IF CalculateRaises = "none"
         THEN [kind |-> "frame", val |-> <<SpauData(got.val[1])>>, exc |-> "none"]
         ELSE [kind |-> "raise", val |-> <<>>, exc |-> CalculateRaises]
    ELSE [kind |-> got.kind, val |-> <<>>, exc |-> got.exc]

\* get_last_UwbDataPair: `self.measures_queue.get()` (waits while the queue is
\* empty), the parse, the cache update and the return; and, inside
\* get_all_data, the rest of get_all_data
ConsumerGet ==
    /\ cpc = "get"
    /\ measures_queue # <<>>
    /\ LET head   == Head(measures_queue)
           parsed == create_UWB_data_pair(head.line)
           got    == GetLastResult(parsed, last_reader_message)
           res    == IF cop.op = "get_all" THEN GetAllResult(got)
                     ELSE [kind |-> got.kind, val |-> got.val, exc |-> got.exc]
       IN  /\ measures_queue' = Tail(measures_queue)
           /\ last_reader_message' = got.cache
           /\ ret' = Outcome(cop.op, res.kind, res.val, res.exc,
                             IF cop.op = "get_all" THEN ret.wrote ELSE FALSE,
                             FALSE, <<head>>, last_reader_message)
    /\ cpc' = "idle"
    /\ cop' = NoOp
    /\ UNCHANGED <<rpc, rdata, nread, last_address_nearest, last_address_second,
                   asked, nasks, writes, ncalls, env, geo, conn, frame, parse>>

\* the anchors of the static configuration
AnchorAddresses == {AddrAA05, AddrBB02}

\* select_points: two different anchors, nearest first
SelectPoints ==
    {<<a, b>> : a \in AnchorAddresses, b \in AnchorAddresses} \ 
    {<<a, a>> : a \in AnchorAddresses}

\* Spausync.get_all_data up to the qsize() test inside get_last_UwbDataPair
GetAllData ==
    /\ cpc = "idle"
    /\ conn.session = "ready"
    /\ ncalls < env.calls
    /\ \E points_to_talk \in SelectPoints, wr \in WriteOutcomes :
          LET eff == AskEffect(points_to_talk[1], points_to_talk[2], wr) IN
          /\ AskUpdate(points_to_talk[1], points_to_talk[2], eff)
          /\ IF eff.exc # "none"
             THEN /\ ret' = Outcome("get_all", "raise", <<>>, eff.exc, eff.wrote,
                                    FALSE, <<>>, last_reader_message)
                  /\ UNCHANGED <<cpc, cop, last_reader_message>>
             ELSE /\ GetLastCheck(Op("get_all", points_to_talk))
                  /\ ret' =
                       IF Len(measures_queue) > 0
                       THEN [ret EXCEPT !.wrote = eff.wrote]
                       ELSE LET res == GetAllResult(
                                           [kind |-> "pair",
                                            val |-> <<last_reader_message>>,
                                            exc |-> "none"])
                            IN  Outcome("get_all", res.kind, res.val, res.exc,
                                        eff.wrote, TRUE, <<>>,
                                        last_reader_message)
    /\ ncalls' = ncalls + 1
    /\ UNCHANGED <<measures_queue, rpc, rdata, nread, env, geo, conn, frame, parse>>

\* what esptool.main can do: succeed, raise SerialException (caught), or
\* raise anything else (leaves restart)
ResetOutcomes == {"ok", "SerialException", "FatalError"}

\* what ble_device.connect can do inside connect()
ConnectOutcomes == {"ok", "error"}

\* restart: `except SerialException` around esptool.main; any other
\* exception leaves restart before connect() is reached
ResetAbsorbed(rs) == rs \in {"ok", "SerialException"}

\* UwbConnection.restart: disconnect (which does nothing), set_initial_values,
\* esptool reset, connect
Restart ==
    /\ cpc = "idle"
    /\ conn.session = "ready"
    /\ ncalls < env.calls
    /\ last_address_nearest' = InitialAddress
    /\ last_address_second' = InitialAddress
    /\ last_reader_message' = InitialPair
    /\ asked' = <<>>
    /\ nasks' = 0
    /\ writes' = 0
    /\ \E rs \in ResetOutcomes, cn \in ConnectOutcomes :
          /\ ret' = Outcome("restart",
                            IF rs = "FatalError" \/ cn = "error"
                            THEN "raise" ELSE "return",
                            <<>>,
                            IF rs = "FatalError" THEN "FatalError"
                            ELSE IF cn = "error" THEN "ConnectionError" ELSE "none",
                            FALSE, FALSE, <<>>, last_reader_message)
          /\ conn' = IF ResetAbsorbed(rs)
                     THEN Conn(conn.session, cn = "ok", TRUE)
                     ELSE Conn(conn.session, conn.connected, FALSE)
    /\ ncalls' = ncalls + 1
    /\ UNCHANGED <<measures_queue, rpc, rdata, nread, cpc, cop, env, geo, frame,
                   parse>>

-----------------------------------------------------------------------------
(* The session: one caller thread and the reader process *)

NoGeo == [pc |-> "off"]

NoFrame == [pc |-> "off"]

NoParse == [pc |-> "off"]

\* what the device sent before the caller's first operation
BacklogLines ==
    <<LineGood1, LineHello, LineGood2, LineTwoFields, LineNonNumeric,
      LineTimeout>>

\* the queue once the reader alone has read and put these lines: with
\* EvictThreshold + 1 lines it is as full as the reader leaves it
Backlog ==
    [i \in 1..Len(BacklogLines) |-> [n |-> i, line |-> Strip(BacklogLines[i])]]

\* the session as the caller finds it: just constructed, or with the reader
\* already running and a backlog of lines in the queue
Init ==
    /\ \/ /\ InitSession
          /\ env = Env(TransportLines, MaxSessionReads, MaxCalls)
       \/ /\ InitCaller
          /\ measures_queue = Backlog
          /\ rpc = "check"
          /\ rdata = <<>>
          /\ nread = Len(Backlog)
          /\ env = Env(TransportLines, Len(Backlog) + MaxSessionReads, MaxCalls)
    /\ geo = NoGeo
    /\ conn = Launched
    /\ frame = NoFrame
    /\ parse = NoParse

Next ==
    \/ BeginProcess
    \/ ReaderCheck
    \/ ReaderEvict
    \/ ReaderReadline
    \/ ReaderPut
    \/ AskForDistances
    \/ GetLastUwbDataPair
    \/ GetAllData
    \/ ConsumerGet
    \/ Restart

Spec == Init /\ [][Next]_vars

-----------------------------------------------------------------------------
(* The reader process against one consumer that only calls                 *)
(* get_last_UwbDataPair                                                    *)

InitQueue ==
    /\ InitSession
    /\ env = Env(QueueLines, MaxReads, MaxGets)
    /\ geo = NoGeo
    /\ conn = Launched
    /\ frame = NoFrame
    /\ parse = NoParse

NextQueue ==
    \/ BeginProcess
    \/ ReaderCheck
    \/ ReaderEvict
    \/ ReaderReadline
    \/ ReaderPut
    \/ GetLastUwbDataPair
    \/ ConsumerGet

SpecQueue == InitQueue /\ [][NextQueue]_vars

-----------------------------------------------------------------------------
(* Claims about the measurement queue (SpecQueue) *)

\* the sequence numbers of the lines in the queue, oldest first
QueueNumbers == [i \in 1..Len(measures_queue) |-> measures_queue[i].n]

\* the reader has put every line it has read
AllPut == rdata = <<>>

\* C1: in every reachable state, under any interleaving of the reader and
\* the consumer, the measurement queue holds at most 5 lines.
C1_QueueHoldsAtMostFive == Len(measures_queue) <= 5

\* C2: starting from an empty queue and with no consumer activity, after the
\* reader has pushed 7 lines L1..L7 the queue holds exactly L3..L7 in that
\* order (so that the next get_last_UwbDataPair call consumes L3).
C2_SevenPushesLeaveThreeToSeven ==
    (nread = 7 /\ AllPut /\ ncalls = 0) => QueueNumbers = <<3, 4, 5, 6, 7>>

\* C3: the reader never blocks on the queue: its eviction get is never
\* executed on an empty queue and its put is never executed on a full queue.
C3_ReaderNeverBlocksOnQueue ==
    /\ rpc = "evict" => measures_queue # <<>>
    /\ rpc = "put" => Len(measures_queue) < QueueMaxsize

-----------------------------------------------------------------------------
(* Claims about the session (Spec) *)

\* C4: on a freshly constructed or restarted session two consecutive
\* ask_for_distances(A, B) calls with identical arguments perform exactly one
\* transport write, and a call whose pair equals the last requested pair
\* performs no write.
C4_TwoIdenticalAsksWriteOnce ==
    [][/\ (nasks = 1 /\ nasks' = 2 /\ asked' = asked) => writes' = 1
       /\ (nasks' = nasks + 1
             /\ asked' = <<<<last_address_nearest, last_address_second>>>>)
          => writes' = writes]_vars

\* the line the last completed call took from the queue failed to parse
\* with UwbDataError
LastHeadMalformed ==
    /\ ret.head # <<>>
    /\ create_UWB_data_pair(ret.head[1].line).exc = "UwbDataError"

\* C5: when the queue is non-empty and its oldest line fails parsing as a
\* pair, get_last_UwbDataPair returns the previously cached pair and leaves
\* that cached pair unchanged.
C5_MalformedHeadReturnsCachedPair ==
    (ret.op = "get_last" /\ LastHeadMalformed)
        => /\ ret.kind = "pair"
           /\ ret.val = <<ret.cached>>
           /\ last_reader_message = ret.cached

\* C6: every line that can sit in the queue either parses to a pair or
\* resolves to UwbDataError, and no other exception from parsing escapes
\* get_last_UwbDataPair or get_all_data (the exception of calculate, which
\* does not come from parsing, is left aside).
C6_OnlyUwbDataErrorFromParsing ==
    /\ \A i \in 1..Len(measures_queue) :
          create_UWB_data_pair(measures_queue[i].line).exc
              \in {"none", "UwbDataError"}
    /\ ret.op \in {"get_last", "get_all"}
          => \/ ret.exc \in {"none", "ConnectionError"}
             \/ ret.op = "get_all" /\ ret.exc = CalculateRaises

\* C7: get_all_data returns None exactly when the measurement queue was empty
\* at the call; whenever the queue is non-empty it returns a complete frame.
\* (A call that ask_for_distances left with ConnectionError returns nothing.)
C7_NoneIffQueueEmpty ==
    (ret.op = "get_all" /\ ret.exc # "ConnectionError")
        => /\ ret.qempty => ret.kind = "None"
           /\ ~ret.qempty => ret.kind = "frame"

-----------------------------------------------------------------------------
(* mapping.py: the geometry engine                                         *)
(*                                                                         *)
(* Lengths are integers in units of 1/UnitsPerMeter metre, and coordinates *)
(* are held in the same unit (a coordinate of k stands for                 *)
(* k / (111139 * UnitsPerMeter) degrees), so the code's division by 111139 *)
(* is the change of unit and leaves the number as it is.  The scale factor *)
(* is held in thousandths.  Anchors sit on a grid whose pairwise distances *)
(* are whole numbers (a 3-4-5 rectangle), which keeps get_distance exact;  *)
(* geodesic() is taken on the plane.                                       *)

\* length units per metre: 5 cm, the unit in which 2.005 * (10 m) is whole
UnitsPerMeter == 20

\* metres between neighbouring grid lines
GridStep == 10

\* measured distances range over 0 .. MaxDist grid steps
MaxDist == 6

\* iterations after which the model stops following the scaling loop
MaxIters == 32

\* MAX_UWB_OFFSET_FACTOR: float = 1.15, in thousandths
MAX_UWB_OFFSET_FACTOR == 1150

\* scale_offset_factor = 1.0, in thousandths
InitialScaleFactor == 1000

\* the literal of `scale_offset_factor += 1.005`, in thousandths
ScaleFactorStep == 1005

Abs(x) == IF x < 0 THEN -x ELSE x

Sign(x) == IF x < 0 THEN -1 ELSE 1

\* math.sqrt, rounded down to a whole unit
RECURSIVE SqrtBetween(_, _, _)
SqrtBetween(n, lo, hi) ==
    IF lo >= hi THEN lo
    ELSE LET mid == (lo + hi + 1) \div 2 IN
         IF mid * mid <= n THEN SqrtBetween(n, mid, hi)
         ELSE SqrtBetween(n, lo, mid - 1)

ISqrt(n) == SqrtBetween(n, 0, Min(n, 46340))

\* Point.__init__
Point(x, y) == [x |-> x, y |-> y]

\* a grid position as a Point
GridPoint(i, j) == Point(i * GridStep * UnitsPerMeter, j * GridStep * UnitsPerMeter)

\* the anchors of the static configuration: corners of a 3-4-5 rectangle
AnchorPoints == {GridPoint(0, 0), GridPoint(3, 0), GridPoint(0, 4), GridPoint(3, 4)}

\* positions of the control point (the GPS fix)
ControlPoints == {GridPoint(0, 0), GridPoint(1, 2), GridPoint(4, 5)}

\* measured distances a caller can pass
Distances == {k * GridStep * UnitsPerMeter : k \in 0..MaxDist}

\* get_distance: geodesic(pa, pb).m
get_distance(a, b) ==
    ISqrt((a.x - b.x) * (a.x - b.x) + (a.y - b.y) * (a.y - b.y))

\* the guard of the offset-scaling loop
ScalingNeeded(distance_a, distance_b, c, scale_offset_factor) ==
    distance_a + distance_b < c /\ scale_offset_factor < MAX_UWB_OFFSET_FACTOR

\* `scale_offset_factor += 1.005`
NextScaleFactorStuck(f) == f

NextScaleFactor(f) == f + ScaleFactorStep

\* `distance_a *= scale_offset_factor`
ScaleDistance(d, f) == (d * f) \div 1000

\* `except (ZeroDivisionError, ValueError, AttributeError)`
CaughtOnlyZeroDivision(e) == e = "ZeroDivisionError"

Caught(e) == e \in {"ZeroDivisionError", "ValueError", "AttributeError"}

\* calculate_position from cos_a on, for the distances the loop left
PositionFrom(anchor_A, ctrl_anchor, distance_a, distance_b, c) ==
    LET den == Abs(2 * distance_b * c)
        num == distance_b * distance_b + c * c - distance_a * distance_a
    IN  IF den = 0 THEN Raised("ZeroDivisionError")
        ELSE IF Abs(num) > den THEN Raised("ValueError")
        ELSE LET tempy == (Sign(distance_b) * num) \div (2 * Abs(c))
                 tempx == Sign(distance_b)
                            * ISqrt(distance_b * distance_b - tempy * tempy)
                 x == IF anchor_A.x > ctrl_anchor.x
                      THEN anchor_A.x - tempx ELSE anchor_A.x + tempx
                 y == IF anchor_A.y > ctrl_anchor.y
                      THEN anchor_A.y - tempy ELSE anchor_A.y + tempy
             IN  Returned(Point(x, y))

\* the try / except of calculate_position around PositionFrom
PositionResult(anchor_A, ctrl_anchor, distance_a, distance_b, c) ==
    LET r == PositionFrom(anchor_A, ctrl_anchor, distance_a, distance_b, c) IN
    IF r.exc # "none" /\ Caught(r.exc) THEN Returned(Point(0, 0)) ELSE r

\* the square of the planar distance of two points
Dist2(p, q) == (p.x - q.x) * (p.x - q.x) + (p.y - q.y) * (p.y - q.y)

\* calc_circle
calc_circle(anchor_A, anchor_B, ctrl_anchor, distance_a, distance_b) ==
    LET d  == ISqrt(Dist2(anchor_A, anchor_B))
        ra == distance_a
        rb == distance_b
    IN  IF d > ra + rb THEN Returned(Point(0, 0))
        ELSE IF d < Abs(ra - rb) THEN Returned(Point(0, 0))
        ELSE IF d = 0 /\ ra = rb THEN Returned(Point(0, 0))
        ELSE IF d = 0 THEN Raised("ZeroDivisionError")
        ELSE LET a  == (ra * ra - rb * rb + d * d) \div (2 * d)
                 h2 == ra * ra - a * a
             IN  IF h2 < 0 THEN Raised("ValueError")
                 ELSE LET h  == ISqrt(h2)
                          x2 == anchor_A.x + (a * (anchor_B.x - anchor_A.x)) \div d
                          y2 == anchor_A.y + (a * (anchor_B.y - anchor_A.y)) \div d
                          pa == Point(x2 + (h * (anchor_B.y - anchor_A.y)) \div d,
                                      y2 - (h * (anchor_B.x - anchor_A.x)) \div d)
                          pb == Point(x2 - (h * (anchor_B.y - anchor_A.y)) \div d,
                                      y2 + (h * (anchor_B.x - anchor_A.x)) \div d)
                      IN  IF Dist2(pa, ctrl_anchor) < Dist2(pb, ctrl_anchor)
                          THEN Returned(pa) ELSE Returned(pb)

\* the state of one run of the engine on one input
GeoCall(anchor_A, anchor_B, ctrl_anchor, distance_a, distance_b) ==
    [pc |-> "call",
     anchor_A |-> anchor_A, anchor_B |-> anchor_B, ctrl_anchor |-> ctrl_anchor,
     in_a |-> distance_a, in_b |-> distance_b,
     distance_a |-> distance_a, distance_b |-> distance_b,
     prev_a |-> distance_a, prev_b |-> distance_b,
     c |-> 0, scale_offset_factor |-> InitialScaleFactor, iters |-> 0,
     result |-> Raised("pending"), circle |-> Raised("pending")]

InitGeo ==
    /\ InitSession
    /\ env = Env({}, 0, 0)
    /\ conn = Launched
    /\ frame = NoFrame
    /\ parse = NoParse
    /\ \E anchor_A \in AnchorPoints, anchor_B \in AnchorPoints,
          ctrl_anchor \in ControlPoints,
          distance_a \in Distances, distance_b \in Distances :
          geo = GeoCall(anchor_A, anchor_B, ctrl_anchor, distance_a, distance_b)

geoUnchanged ==
    UNCHANGED <<measures_queue, rpc, rdata, nread, callerVars, env, conn,
                frame, parse>>

\* calculate_position: `c = get_distance(anchor_A, anchor_B)` and
\* `scale_offset_factor = 1.0`
CalcStart ==
    /\ geo.pc = "call"
    /\ geo' = [geo EXCEPT !.pc = "loop",
                          !.c = get_distance(geo.anchor_A, geo.anchor_B),
                          !.scale_offset_factor = InitialScaleFactor]
    /\ geoUnchanged

\* one iteration of the offset-scaling loop
ScaleStep ==
    /\ geo.pc = "loop"
    /\ geo.iters < MaxIters
    /\ ScalingNeeded(geo.distance_a, geo.distance_b, geo.c, geo.scale_offset_factor)
    /\ LET f == NextScaleFactor(geo.scale_offset_factor) IN
       geo' = [geo EXCEPT !.scale_offset_factor = f,
                          !.prev_a = geo.distance_a,
                          !.prev_b = geo.distance_b,
                          !.distance_a = ScaleDistance(geo.distance_a, f),
                          !.distance_b = ScaleDistance(geo.distance_b, f),
                          !.iters = geo.iters + 1]
    /\ geoUnchanged

\* calculate_position after the loop: the rest of the try block, the except
\* clause and the return
CalcFinish ==
    /\ geo.pc = "loop"
    /\ ~ScalingNeeded(geo.distance_a, geo.distance_b, geo.c, geo.scale_offset_factor)
    /\ geo' = [geo EXCEPT !.pc = "done",
                          !.result = PositionResult(geo.anchor_A, geo.ctrl_anchor,
                                         geo.distance_a, geo.distance_b, geo.c)]
    /\ geoUnchanged

\* calc_circle on the same input
CalcCircle ==
    /\ geo.pc = "done"
    /\ geo' = [geo EXCEPT !.pc = "both",
                          !.circle = calc_circle(geo.anchor_A, geo.anchor_B,
                                         geo.ctrl_anchor, geo.in_a, geo.in_b)]
    /\ geoUnchanged

NextGeo ==
    \/ CalcStart
    \/ ScaleStep
    \/ CalcFinish
    \/ CalcCircle

SpecGeo == InitGeo /\ [][NextGeo]_vars

-----------------------------------------------------------------------------
(* Claims about the geometry engine (SpecGeo) *)

Sentinel == Returned(Point(0, 0))

\* C8: for all inputs with distance_a + distance_b < c, the scale factor
\* applied to the distances never exceeds the configured maximum 1.15 at any
\* step of the offset-scaling loop.
C8_ScaleFactorWithinMaximum ==
    geo.in_a + geo.in_b < geo.c
        => geo.scale_offset_factor <= MAX_UWB_OFFSET_FACTOR

\* C9: for all inputs with distance_a + distance_b < c, the offset-scaling
\* loop terminates after at most 30 iterations, and each iteration strictly
\* increases both distance_a and distance_b (for positive distances).
C9_ScalingTerminatesAndIncreases ==
    /\ geo.iters <= 30
    /\ geo.iters > 0 =>
          /\ geo.prev_a > 0 => geo.distance_a > geo.prev_a
          /\ geo.prev_b > 0 => geo.distance_b > geo.prev_b

\* the loop has run on positive distances and calculate_position has returned
C9_Witness ==
    /\ geo.pc = "done"
    /\ geo.in_a + geo.in_b < geo.c
    /\ geo.iters >= 1
    /\ geo.prev_a > 0
    /\ geo.prev_b > 0

\* the degenerate inputs, in terms of the distances passed in
Coincident == geo.anchor_A = geo.anchor_B

TooShort == geo.in_a + geo.in_b < geo.c

StrictlyInside == Abs(geo.in_a - geo.in_b) > geo.c

ZeroDistance == geo.in_a = 0 \/ geo.in_b = 0

\* calc_circle's own anchor separation d (planar, in degrees in the code)
CircleSeparation == ISqrt(Dist2(geo.anchor_A, geo.anchor_B))

\* no triangle exists for the distances the offset-scaling loop left
NoTriangleAfterScaling ==
    \/ geo.distance_b = 0
    \/ geo.distance_a + geo.distance_b < geo.c
    \/ Abs(geo.distance_a - geo.distance_b) > geo.c

\* the circles of calc_circle do not meet
NoIntersection ==
    \/ geo.in_a + geo.in_b < CircleSeparation
    \/ Abs(geo.in_a - geo.in_b) > CircleSeparation

\* C10 as stated: for coincident anchors and for distances that admit no
\* triangle or intersection (ranges too short to meet, one circle strictly
\* inside the other, a zero distance), both calculate_position and
\* calc_circle return the sentinel Point(0,0) and raise no exception.
C10_DegenerateGivesSentinel ==
    (geo.pc = "both" /\ (Coincident \/ TooShort \/ StrictlyInside \/ ZeroDistance))
        => geo.result = Sentinel /\ geo.circle = Sentinel

\* C10 amended: for coincident anchors both functions return the sentinel
\* Point(0,0) and raise no exception.  calc_circle returns it, without
\* raising, when the ranges are too short to meet or one circle is strictly
\* inside the other.  calculate_position returns it, without raising, when,
\* for the distances its offset-scaling loop left, distance_b is zero, the
\* ranges are too short to meet or one circle is strictly inside the other.
C10_DegenerateGivesSentinelAmended ==
    geo.pc = "both" =>
        /\ Coincident => geo.result = Sentinel /\ geo.circle = Sentinel
        /\ NoIntersection => geo.circle = Sentinel
        /\ NoTriangleAfterScaling => geo.result = Sentinel

\* both functions have returned the sentinel for separate anchors and
\* positive ranges that stay too short to meet after the scaling loop
C10_Witness ==
    /\ geo.pc = "both"
    /\ ~Coincident
    /\ TooShort
    /\ geo.iters >= 1
    /\ geo.in_a > 0
    /\ geo.in_b > 0
    /\ NoTriangleAfterScaling
    /\ NoIntersection
    /\ geo.result = Sentinel
    /\ geo.circle = Sentinel

\* a non-degenerate input: separate anchors and positive distances that
\* form a triangle with the anchor separation as they are passed in
NonDegenerate ==
    /\ ~Coincident
    /\ ~ZeroDistance
    /\ ~TooShort
    /\ ~StrictlyInside

\* the returned coordinate r lies on the side of anchor_A's coordinate a
\* that ctrl_anchor's coordinate k indicates
OnControlSide(r, a, k) == IF a > k THEN r <= a ELSE r >= a

\* C21: for every non-degenerate input of calculate_position, on each axis
\* the returned point lies on the same side of anchor_A as ctrl_anchor: the
\* result coordinate is <= anchor_A's coordinate when anchor_A's coordinate
\* is greater than ctrl_anchor's, and >= it otherwise, for both x and y and
\* also when the computed cosine is negative.
C21_ResultOnControlSide ==
    (geo.pc \in {"done", "both"} /\ NonDegenerate) =>
        /\ geo.result.exc = "none"
        /\ OnControlSide(geo.result.val[1].x, geo.anchor_A.x, geo.ctrl_anchor.x)
        /\ OnControlSide(geo.result.val[1].y, geo.anchor_A.y, geo.ctrl_anchor.y)

-----------------------------------------------------------------------------
(* calculate_position as one function of its five arguments *)

\* the offset-scaling loop, run to its end
RECURSIVE ScaleLoop(_, _, _, _, _)
ScaleLoop(distance_a, distance_b, c, scale_offset_factor, iters) ==
    IF iters < MaxIters
       /\ ScalingNeeded(distance_a, distance_b, c, scale_offset_factor)
    THEN LET f == NextScaleFactor(scale_offset_factor) IN
         ScaleLoop(ScaleDistance(distance_a, f), ScaleDistance(distance_b, f),
                   c, f, iters + 1)
    ELSE [distance_a |-> distance_a, distance_b |-> distance_b]

\* calculate_position
calculate_position(anchor_A, anchor_B, ctrl_anchor, distance_a, distance_b) ==
    LET c == get_distance(anchor_A, anchor_B)
        s == ScaleLoop(distance_a, distance_b, c, InitialScaleFactor, 0)
    IN  PositionResult(anchor_A, ctrl_anchor, s.distance_a, s.distance_b, c)

-----------------------------------------------------------------------------
(* spausyncing.py: the SpauData frame                                      *)
(*                                                                         *)
(* StampedData (misc.py), AhrsData (inercing.py) and GpsData are not among *)
(* the sources; they follow the specification: a stamped object carries    *)
(* the time of its capture and validate_age compares its age with a        *)
(* budget.  Time is counted in ticks back from the moment the frame is     *)
(* built.                                                                  *)

\* the oldest a sample can be when a frame is built from it
MaxAge == 2

\* the staleness budget of validate_age, in ticks
Budget == 1

Ages == 0..MaxAge

\* Python's None
None == [kind |-> "None"]

\* a parsed measurement as an object: UwbData.__init__ assigns tag_address,
\* distance, power and valid, and does not call StampedData.__init__, so the
\* object carries no timestamp; `age` is how long ago it was created
UwbDataObject(data, age) ==
    [kind |-> "UwbData", data |-> data, timestamp |-> <<>>, age |-> age]

\* an object StampedData.__init__ has stamped
StampedObject(kind, point, age) ==
    [kind |-> kind, point |-> point, timestamp |-> <<0 - age>>, age |-> age]

AhrsData(age) == StampedObject("AhrsData", <<>>, age)

GpsData(point, age) == StampedObject("GpsData", <<point>>, age)

\* a UwbDataPair as an object
UwbDataPairObject(nearest, second) ==
    [kind |-> "UwbDataPair", nearest |-> nearest, second |-> second]

\* StampedData.validate_age: the age of the object against the budget;
\* reading the timestamp of an object that has none is an AttributeError
validate_age(obj) ==
    IF obj.kind = "None" \/ obj.timestamp = <<>>
    THEN Raised("AttributeError")
    ELSE Returned(0 - obj.timestamp[1] <= Budget)

\* `a.validate_age() and b.validate_age() and ...`: left to right, stopping
\* at the first False and at the first exception
RECURSIVE AllValidateAge(_)
AllValidateAge(objs) ==
    IF objs = <<>> THEN Returned(TRUE)
    ELSE LET r == validate_age(Head(objs)) IN
         IF r.exc # "none" THEN r
         ELSE IF ~r.val[1] THEN Returned(FALSE)
         ELSE AllValidateAge(Tail(objs))

\* the condition of the `if` in _validate_intupts
ValidateCondition(uwb, ahrs, gps) ==
    IF uwb.kind = "None" THEN Raised("AttributeError")
    ELSE AllValidateAge(<<uwb.nearest, uwb.second, ahrs, gps>>)

\* `except AttributeError` in _validate_intupts
ValidateCatchesNothing(e) == FALSE

ValidateCatches(e) == e = "AttributeError"

\* SpauData._validate_intupts: the value it gives is_valid, or the exception
\* that leaves it
validate_intupts(uwb, ahrs, gps) ==
    LET r == ValidateCondition(uwb, ahrs, gps) IN
    IF r.exc = "none" THEN r
    ELSE IF ValidateCatches(r.exc) THEN Returned(FALSE)
    ELSE r

\* Point.__init__ with its address
AddressedPoint(x, y, address) == [x |-> x, y |-> y, address |-> address]

\* Point(0.0, 0.0, "NOT_CALCULATED")
NotCalculated == AddressedPoint(0, 0, "NOT_CALCULATED")

\* SpauData.__init__
SpauDataInit(uwb, ahrs, gps) ==
    LET v == validate_intupts(uwb, ahrs, gps) IN
    IF v.exc # "none" THEN Raised(v.exc)
    ELSE Returned([uwb_data_pair |-> uwb, ahrs_data |-> ahrs, gps_data |-> gps,
                   is_valid |-> v.val[1], calculated_position |-> NotCalculated])

\* a call of calculate_position with positional arguments: binding fewer or
\* more arguments than parameters is a TypeError raised before the body
\* (and its try) is entered
CallCalculatePosition(args) ==
    IF Len(args) # Len(CalculateParameters) THEN Raised("TypeError")
    ELSE calculate_position(args[1], args[2], args[3], args[4], args[5])

\* SpauData.calculate: `calculate_position(self.gps_data,
\* self.uwb_data_pair, points_pair)`
CalculateCall(data, points_pair) ==
    CallCalculatePosition(<<data.gps_data, data.uwb_data_pair, points_pair>>)

\* SpauData.calculate: the frame after `self.calculated_position = ...`
SpauDataCalculate(data, position) ==
    [data EXCEPT !.calculated_position =
                     AddressedPoint(position.x, position.y, "TAG")]

\* distances measured to the two anchors, in length units
FrameDistances ==
    {k * GridStep * UnitsPerMeter : k \in {MaxDist - 3, MaxDist - 1}}

\* the measurements a frame can be given: absent, the placeholder UwbData(),
\* or a parsed measurement
FrameMeasures(tag) ==
    {None} \cup {UwbDataObject(UwbDataDefault, age) : age \in Ages}
           \cup {UwbDataObject(UwbData(tag, d, 0, TRUE), age) :
                    d \in FrameDistances, age \in {0, MaxAge}}

FramePairs ==
    {None} \cup {UwbDataPairObject(n, s) :
                    n \in FrameMeasures(AddrAA05), s \in FrameMeasures(AddrBB02)}

FrameAhrs == {None} \cup {AhrsData(age) : age \in {0, MaxAge}}

FrameGps ==
    {None} \cup {GpsData(p, age) : p \in {GridPoint(1, 2)}, age \in Ages}

\* the anchor pairs calculate can be given
PointsPairs ==
    {<<a, b>> : a \in AnchorPoints, b \in AnchorPoints} \
    {<<a, a>> : a \in AnchorPoints}

InitFrame ==
    /\ InitSession
    /\ env = Env({}, 0, 0)
    /\ geo = NoGeo
    /\ conn = Launched
    /\ parse = NoParse
    /\ \E uwb \in FramePairs, ahrs \in FrameAhrs, gps \in FrameGps :
          frame = [pc |-> "inputs", uwb |-> uwb, ahrs |-> ahrs, gps |-> gps,
                   data |-> <<>>, exc |-> "none", built_valid |-> FALSE,
                   points_pair |-> <<>>]

frameUnchanged ==
    UNCHANGED <<measures_queue, rpc, rdata, nread, callerVars, env, geo, conn,
                parse>>

\* SpauData(uwb, ahrs, gps)
FrameConstruct ==
    /\ frame.pc = "inputs"
    /\ LET r == SpauDataInit(frame.uwb, frame.ahrs, frame.gps) IN
       frame' = IF r.exc = "none"
                THEN [frame EXCEPT !.pc = "built", !.data = r.val,
                                   !.built_valid = r.val[1].is_valid]
                ELSE [frame EXCEPT !.pc = "raised", !.exc = r.exc]
    /\ frameUnchanged

\* data.calculate(points_pair)
FrameCalculate ==
    /\ frame.pc = "built"
    /\ \E points_pair \in PointsPairs :
          LET data == frame.data[1]
              r == CalculateCall(data, points_pair)
          IN  frame' = IF r.exc = "none"
                       THEN [frame EXCEPT
                               !.pc = "calculated",
                               !.data = <<SpauDataCalculate(data, r.val[1])>>,
                               !.points_pair = points_pair]
                       ELSE [frame EXCEPT !.pc = "calculate raised",
                                          !.exc = r.exc,
                                          !.points_pair = points_pair]
    /\ frameUnchanged

NextFrame ==
    \/ FrameConstruct
    \/ FrameCalculate

SpecFrame == InitFrame /\ [][NextFrame]_vars

-----------------------------------------------------------------------------
(* Claims about the SpauData frame (SpecFrame) *)

\* the constructor returned a frame
FrameBuilt == frame.pc \in {"built", "calculated", "calculate raised"}

\* the objects whose age _validate_intupts is meant to check
FrameLeaves ==
    IF frame.uwb.kind = "None" THEN <<None, None, frame.ahrs, frame.gps>>
    ELSE <<frame.uwb.nearest, frame.uwb.second, frame.ahrs, frame.gps>>

\* an input that is None or the placeholder measurement UwbData()
IsNullOrPlaceholder(obj) ==
    obj.kind = "None" \/ (obj.kind = "UwbData" /\ obj.data = UwbDataDefault)

\* every leaf is a real sample captured within the budget
AllLeavesFresh ==
    \A i \in 1..4 : /\ ~IsNullOrPlaceholder(FrameLeaves[i])
                     /\ FrameLeaves[i].age <= Budget

\* C11: a frame's is_valid is true exactly when all four timestamped leaves
\* (nearest, second, ahrs, gps) are fresh at construction: one stale leaf
\* gives false, all-fresh leaves give true.
C11_ValidIffAllLeavesFresh ==
    frame.pc # "inputs"
        => /\ FrameBuilt
           /\ frame.data[1].is_valid <=> AllLeavesFresh

SomeInputNull ==
    \/ frame.uwb.kind = "None"
    \/ \E i \in 1..4 : IsNullOrPlaceholder(FrameLeaves[i])

\* C12: building a frame in which the pair, a measurement of the pair, the
\* inertial sample or the GPS fix is None or a placeholder completes without
\* raising and gives is_valid = false.
C12_NullInputGivesInvalidFrame ==
    (frame.pc # "inputs" /\ SomeInputNull)
        => /\ FrameBuilt
           /\ ~frame.data[1].is_valid

\* a frame was built from a pair of parsed measurements and a GPS fix, with
\* no inertial sample
C12_Witness ==
    /\ frame.pc = "built"
    /\ frame.uwb.kind # "None"
    /\ ~IsNullOrPlaceholder(frame.uwb.nearest)
    /\ ~IsNullOrPlaceholder(frame.uwb.second)
    /\ frame.ahrs.kind = "None"
    /\ frame.gps.kind # "None"
    /\ ~frame.data[1].is_valid

\* what the geometry engine returns for the frame's anchors, GPS fix and
\* measured distances
EngineOnFrame ==
    calculate_position(frame.points_pair[1], frame.points_pair[2],
                       frame.gps.point[1],
                       frame.uwb.nearest.data.distance,
                       frame.uwb.second.data.distance).val[1]

FrameComplete ==
    /\ frame.gps.kind # "None"
    /\ frame.uwb.kind # "None"
    /\ frame.uwb.nearest.kind # "None"
    /\ frame.uwb.second.kind # "None"

\* C13: before calculate the frame's calculated_position is the sentinel
\* Point(0, 0, "NOT_CALCULATED"); after calculate(points_pair) it is the
\* geometry engine's result for the two anchors, the GPS fix as control point
\* and the two measured distances (the engine's own sentinel when an input is
\* absent), and is_valid is what construction made it.
C13_CalculateStoresEngineResult ==
    /\ frame.pc = "built" => frame.data[1].calculated_position = NotCalculated
    /\ frame.pc \in {"calculated", "calculate raised"}
          => /\ frame.pc = "calculated"
             /\ frame.data[1].is_valid = frame.built_valid
             /\ LET p == frame.data[1].calculated_position
                    e == IF FrameComplete THEN EngineOnFrame ELSE Point(0, 0)
                IN  p.x = e.x /\ p.y = e.y

-----------------------------------------------------------------------------
(* The caller alone: construction, connect, requests, restart and          *)
(* read_uwb_data, with the reader not started                              *)

\* caller operations in a run of the caller alone
MaxCallerCalls == 3

\* the keys of UwbConstants.settings
UwbConstantsKeys ==
    {"DEVICE_ADDRESS", "SERVICE_UUID", "READ_CHARACTERISTIC_UUID",
     "WRITE_CHARACTERISTIC_UUID", "UWB_SERIAL_ADDRESS", "GPS_SERIAL_ADDRESS",
     "MAX_RANGE_OFFSET_RATIO"}

\* the settings a deployment ships: uwb_constants.py as it stands, or with
\* the DEBUG_LEVEL that read_settings_from_json reads
SettingsChoices == {UwbConstantsKeys, UwbConstantsKeys \cup {"DEBUG_LEVEL"}}

\* UwbConstants.get_value is dict.get: None for a key that is not there
HasValue(settings, name) == name \in settings

\* what BLE_GATT.Central(...) can do in the constructor
CentralOutcomes == {"ok", "error"}

\* what Serial(...) can do in the constructor
SerialOutcomes == {"ok", "SerialException"}

\* UwbConnection.__init__: the exception that leaves it, "none" when the
\* session is constructed.
\*   int(None) in read_settings_from_json is a TypeError;
\*   the bare `except:` turns a failure of BLE_GATT.Central into UwbFatalError;
\*   `except SerialException` only logs, and _set_processes then reads
\*   self.serial_device, which was never assigned: AttributeError
ConstructResult(settings, ble, serial) ==
    IF ~HasValue(settings, "DEBUG_LEVEL") THEN "TypeError"
    ELSE IF ble = "error" THEN "UwbFatalError"
    ELSE IF serial = "SerialException" THEN "AttributeError"
    ELSE "none"

\* the outcome of a caller operation that returns no value
CallOutcome(op, exc) ==
    Outcome(op, IF exc = "none" THEN "return" ELSE "raise", <<>>, exc, FALSE,
            FALSE, <<>>, last_reader_message)

sessionUnchanged ==
    UNCHANGED <<measures_queue, rpc, rdata, nread, last_address_nearest,
                last_address_second, last_reader_message, cpc, cop, asked,
                nasks, writes, env, geo, frame, parse>>

\* UwbConnection()
Construct ==
    /\ conn.session = "none"
    /\ ncalls < env.calls
    /\ \E settings \in SettingsChoices, ble \in CentralOutcomes,
          serial \in SerialOutcomes :
          LET exc == ConstructResult(settings, ble, serial) IN
          /\ conn' = IF exc = "none" THEN Conn("ready", FALSE, FALSE) ELSE conn
          /\ ret' = CallOutcome("construct", exc)
                       @@ [ble |-> ble, serial |-> serial]
    /\ ncalls' = ncalls + 1
    /\ sessionUnchanged

\* UwbConnection.connect
Connect ==
    /\ conn.session = "ready"
    /\ cpc = "idle"
    /\ ncalls < env.calls
    /\ \E cn \in ConnectOutcomes :
          /\ conn' = Conn("ready", cn = "ok", TRUE)
          /\ ret' = CallOutcome("connect",
                                IF cn = "ok" THEN "none" ELSE "ConnectionError")
    /\ ncalls' = ncalls + 1
    /\ sessionUnchanged

\* the methods of UwbConnection
UwbConnectionMethods ==
    {"_set_processes", "begin_process", "set_initial_values",
     "read_settings_from_json", "debug", "connect", "ask_for_distances",
     "get_last_UwbDataPair", "read_uwb_data", "disconnect", "restart"}

\* read_uwb_data: `except (ConnectionError, UwbDataError)`
ReadCatches(e) == e \in {"ConnectionError", "UwbDataError"}

\* read_uwb_data up to the end of its try block: its first statement is
\* `self.ask_for_distance(address)`, and looking up an attribute the object
\* does not have is an AttributeError
ReadTry(address) ==
    IF "ask_for_distance" \notin UwbConnectionMethods
    THEN Raised("AttributeError")
    ELSE Returned(last_reader_message)

\* UwbConnection.read_uwb_data: the exception of its first statement is not
\* one the try catches, so it leaves the method and nothing after the try
\* block is reached
ReadUwbData ==
    /\ conn.session = "ready"
    /\ cpc = "idle"
    /\ ncalls < env.calls
    /\ \E address \in AnchorAddresses :
          LET r == ReadTry(address) IN
          /\ r.exc # "none"
          /\ ~ReadCatches(r.exc)
          /\ ret' = CallOutcome("read_uwb_data", r.exc) @@ [address |-> address]
    /\ ncalls' = ncalls + 1
    /\ UNCHANGED conn
    /\ sessionUnchanged

InitCallerAlone ==
    /\ InitSession
    /\ env = Env({}, 0, MaxCallerCalls)
    /\ geo = NoGeo
    /\ conn = Conn("none", FALSE, FALSE)
    /\ frame = NoFrame
    /\ parse = NoParse

NextCaller ==
    \/ Construct
    \/ Connect
    \/ AskForDistances
    \/ ReadUwbData
    \/ Restart

SpecCaller == InitCallerAlone /\ [][NextCaller]_vars

-----------------------------------------------------------------------------
(* Claims about the caller's operations (SpecCaller) *)

\* C14: read_uwb_data(address) raises UwbIncorrectData when the measurement
\* it retrieved carries another tag address, and returns the measurement when
\* the addresses match: it ends in no other way and never returns data of
\* another tag.
C14_ReadChecksTagAddress ==
    ret.op = "read_uwb_data"
        => \/ ret.exc = "UwbIncorrectData"
           \/ /\ ret.kind = "return"
              /\ ret.val # <<>>
              /\ ret.val[1].tag_address = ret.address

\* C15: restart() absorbs the failure of its sub-steps: connect() is
\* attempted whatever the hardware reset did, and restart leaves the session
\* connected exactly when that reconnect succeeded.
C15_RestartAlwaysReconnects ==
    ret.op = "restart"
        => /\ conn.tried
           /\ conn.connected <=> ret.exc = "none"

\* C16: after restart(), whatever its reset and reconnect did, the
\* last-requested pair and the cached pair hold their initial values, and the
\* next ask_for_distances(A, B) performs a transport write.
C16_AskAfterRestartWrites ==
    [][/\ ret'.op = "restart"
          => /\ last_address_nearest' = InitialAddress
             /\ last_address_second' = InitialAddress
             /\ last_reader_message' = InitialPair
       /\ (ret.op = "restart" /\ ret'.op = "ask") => ret'.wrote]_vars

\* C17: ask_for_distances with a new pair: a failed transport write raises
\* ConnectionError, a KeyError of the write (characteristic not found) is
\* swallowed and the call returns normally, and nothing else can happen.
C17_AskWriteFailures ==
    (ret.op = "ask" /\ ret.wrote)
        => /\ ret.wr = "BLEError" => (ret.kind = "raise" /\ ret.exc = "ConnectionError")
           /\ ret.wr = "KeyError" => (ret.kind = "return" /\ ret.exc = "none")
           /\ ret.wr = "ok" => (ret.kind = "return" /\ ret.exc = "none")
           /\ ret.exc \in {"none", "ConnectionError"}

\* a KeyError of the write was swallowed after an earlier write had failed
\* with ConnectionError
C17_Witness ==
    /\ ret.op = "ask"
    /\ ret.wrote
    /\ ret.wr = "KeyError"
    /\ ret.kind = "return"
    /\ writes = 2

\* the step is a call of ask_for_distances
AskStep == nasks' = nasks + 1

\* the call before was ask_for_distances and its write failed: ConnectionError
\* was raised, or a KeyError was swallowed
WriteFailedBefore == ret.op = "ask" /\ ret.wrote /\ ret.wr \in {"BLEError", "KeyError"}

\* C22: ask_for_distances records (A, B) as the last-requested pair before
\* it attempts the transport write: after a call ask_for_distances(A, B) whose
\* write fails (ConnectionError raised, or KeyError swallowed) the pair is
\* recorded and a subsequent ask_for_distances(A, B) performs no write; a
\* request for the pair asked last is written again only after a call with a
\* different pair or a restart().
C22_FailedWriteStillRecordsPair ==
    [][/\ (AskStep /\ ret'.wrote)
          => /\ last_address_nearest' = asked'[1][1]
             /\ last_address_second' = asked'[1][2]
       /\ (AskStep /\ WriteFailedBefore /\ asked' = asked)
          => ~ret'.wrote /\ writes' = writes
       /\ (AskStep /\ ret'.wrote)
          => asked = <<>> \/ asked' # asked]_vars

\* a request was repeated after its write had failed with ConnectionError,
\* and the repeat wrote nothing
C22_Witness ==
    /\ ret.op = "ask"
    /\ ret.before = "BLEError"
    /\ ~ret.wrote
    /\ writes = 1
    /\ asked = <<<<AddrAA05, AddrBB02>>>>
    /\ last_address_nearest = AddrAA05
    /\ last_address_second = AddrBB02

\* C18: when the Bluetooth device or the serial port is unavailable, the
\* constructor raises UwbFatalError and no session results; a failure of a
\* later connect() raises ConnectionError.
C18_ConstructorRaisesFatal ==
    /\ (ret.op = "construct" /\ (ret.ble = "error" \/ ret.serial = "SerialException"))
          => /\ ret.exc = "UwbFatalError"
             /\ conn.session = "none"
    /\ (ret.op = "connect" /\ ~conn.connected)
          => ret.exc = "ConnectionError"

-----------------------------------------------------------------------------
(* The parsers on their own: texts put together from fields *)

\* first fields of a block: an address with or without trailing characters,
\* and one shorter than an address
AddressFields ==
    {<<"A", "A", ":", "0", "5", "r", "e", "s", "t">>,
     <<"B", "B", ":", "0", "2", "r", "e", "s", "t">>,
     <<"B", "B", ":", "0", "2">>,
     <<"A", "A">>}

\* second fields: "12.34", "9", the timeout marker, and "ab"
DistanceFields ==
    {<<"1", "2", ".", "3", "4">>, <<"9">>,
     UWB_TIMEOUT_MESSAGE, <<"a", "b">>}

\* third fields: "5.6", "4" and "zz"
PowerFields == {<<"5", ".", "6">>, <<"4">>, <<"z", "z">>}

\* blocks of two fields and of three
Blocks ==
    {a \o <<"|">> \o d : a \in AddressFields, d \in DistanceFields}
    \cup {a \o <<"|">> \o d \o <<"|">> \o p :
             a \in AddressFields, d \in DistanceFields, p \in PowerFields}

\* lines with one block, UWB_ERROR_MESSAGE among them, and with two
ParseLines ==
    Blocks \cup {Strip(LineHello)}
           \cup {b1 \o <<"_">> \o b2 : b1 \in Blocks, b2 \in Blocks}

InitParse ==
    /\ InitSession
    /\ env = Env({}, 0, 0)
    /\ geo = NoGeo
    /\ conn = Launched
    /\ frame = NoFrame
    /\ \/ \E data \in ParseLines :
             parse = [pc |-> "text", as |-> "pair", data |-> data,
                      result |-> Raised("pending")]
       \/ \E data \in Blocks :
             parse = [pc |-> "text", as |-> "single", data |-> data,
                      result |-> Raised("pending")]

parseUnchanged ==
    UNCHANGED <<measures_queue, rpc, rdata, nread, callerVars, env, geo, conn,
                frame>>

\* UwbDataPair.create_UWB_data_pair(data)
ParsePair ==
    /\ parse.pc = "text"
    /\ parse.as = "pair"
    /\ parse' = [parse EXCEPT !.pc = "done",
                              !.result = create_UWB_data_pair(parse.data)]
    /\ parseUnchanged

\* UwbData.create_UWB_data(data)
ParseSingle ==
    /\ parse.pc = "text"
    /\ parse.as = "single"
    /\ parse' = [parse EXCEPT !.pc = "done",
                              !.result = create_UWB_data(parse.data)]
    /\ parseUnchanged

NextParse ==
    \/ ParsePair
    \/ ParseSingle

SpecParse == InitParse /\ [][NextParse]_vars

-----------------------------------------------------------------------------
(* Claims about the parsers (SpecParse) *)

\* the fields of a block
Fields(block) == Split(block, "|")

\* a block whose distance field is the timeout marker
IsTimeoutBlock(block) ==
    Len(Fields(block)) >= 2 /\ Fields(block)[2] = UWB_TIMEOUT_MESSAGE

\* a block "<addr><unused>|<distance>|<power>": a five-character address,
\* then a numeric distance and a numeric power
IsMeasureBlock(block) ==
    /\ Len(Fields(block)) = 3
    /\ Len(Fields(block)[1]) >= 5
    /\ IsFloat(Fields(block)[2])
    /\ IsFloat(Fields(block)[3])

\* the '_'-blocks of the text that was parsed
ParsedBlocks == Split(parse.data, "_")

\* C19: a block whose distance field is the timeout marker parses, without
\* raising, to a measurement with valid = false and distance = 0.0 whatever
\* its other fields are; and a pair line of which one block is such a timeout
\* block (the other a timeout block or a measurement block) parses to a pair
\* without raising.
C19_TimeoutBlockParsesInvalid ==
    /\ (parse.pc = "done" /\ parse.as = "single" /\ IsTimeoutBlock(parse.data))
          => /\ parse.result.exc = "none"
             /\ ~parse.result.val[1].valid
             /\ parse.result.val[1].distance = 0
    /\ (/\ parse.pc = "done"
        /\ parse.as = "pair"
        /\ Len(ParsedBlocks) = 2
        /\ \E i \in 1..2 : IsTimeoutBlock(ParsedBlocks[i])
        /\ \A i \in 1..2 : IsTimeoutBlock(ParsedBlocks[i])
                               \/ IsMeasureBlock(ParsedBlocks[i]))
          => /\ parse.result.exc = "none"
             /\ \A i \in 1..2 :
                   LET m == IF i = 1 THEN parse.result.val[1].nearest
                            ELSE parse.result.val[1].second
                   IN  IsTimeoutBlock(ParsedBlocks[i])
                          => (~m.valid /\ m.distance = 0)

\* a pair line was parsed whose second block is a timeout block of two
\* fields and whose first block is a measurement
C19_Witness ==
    /\ parse.pc = "done"
    /\ parse.as = "pair"
    /\ Len(ParsedBlocks) = 2
    /\ IsMeasureBlock(ParsedBlocks[1])
    /\ IsTimeoutBlock(ParsedBlocks[2])
    /\ Len(Fields(ParsedBlocks[2])) = 2
    /\ parse.result.exc = "none"
    /\ parse.result.val[1].nearest.valid
    /\ ~parse.result.val[1].second.valid

\* the measurement a measurement block stands for
MeasureOf(block) ==
    UwbData(SubSeq(block, 1, 5), FloatVal(Fields(block)[2]),
            FloatVal(Fields(block)[3]), TRUE)

\* C20: a well-formed pair line "<block1>_<block2>" parses to a pair whose
\* nearest comes from block1 and whose second comes from block2, each with
\* the first 5 characters of its block as tag_address and the block's second
\* and third fields as distance and power; a line with a single '_'-block
\* raises UwbDataError.
C20_PairLineParsesInOrder ==
    /\ (/\ parse.pc = "done"
        /\ parse.as = "pair"
        /\ Len(ParsedBlocks) = 2
        /\ \A i \in 1..2 : IsMeasureBlock(ParsedBlocks[i]))
          => /\ parse.result.exc = "none"
             /\ parse.result.val[1].nearest = MeasureOf(ParsedBlocks[1])
             /\ parse.result.val[1].second = MeasureOf(ParsedBlocks[2])
    /\ (parse.pc = "done" /\ parse.as = "pair" /\ Len(ParsedBlocks) = 1)
          => parse.result.exc = "UwbDataError"

\* "AA:05rest|12.34|5.6_BB:02rest|9|4" was parsed: 12.34 and 9 in hundredths
C20_Witness ==
    /\ parse.pc = "done"
    /\ parse.as = "pair"
    /\ parse.result.exc = "none"
    /\ parse.result.val[1].nearest.tag_address = AddrAA05
    /\ parse.result.val[1].nearest.distance = 1234
    /\ parse.result.val[1].nearest.power = 560
    /\ parse.result.val[1].second.tag_address = AddrBB02
    /\ parse.result.val[1].second.distance = 900
    /\ parse.result.val[1].second.power = 400

====
